---- MODULE Spec2Model ----
(***************************************************************************)
(* Model of the /predict request handler of the crop recommendation API    *)
(* (src/app.py): JSON body parsing, weather resolution with the manual     *)
(* fallback, feature assembly, classifier invocation and top-3 ranking.    *)
(*                                                                         *)
(* JSON values are records [t, v]: t is "num", "str" or "null"; strings    *)
(* are numbered, string 0 being the empty string.  A JSON object is a      *)
(* function from its keys to JSON values.  Probabilities are fixed-point   *)
(* integers in units of 1/Unit; reported percentages are integers in       *)
(* units of 0.01.                                                          *)
(***************************************************************************)
EXTENDS Integers, Sequences, FiniteSets, TLC

VARIABLES pc, body, env, weather, error, temperature, humidity,
          input_data, prediction, probs, response,
          providerCalls, predictArgs, probaArgs

vars == <<pc, body, env, weather, error, temperature, humidity,
          input_data, prediction, probs, response,
          providerCalls, predictArgs, probaArgs>>

\* ---------------------------------------------------------------- values

Num(n) == [t |-> "num", v |-> n]
Str(i) == [t |-> "str", v |-> i]
Null == [t |-> "null", v |-> 0]

\* Python truthiness of a JSON scalar
Truthy(x) == /\ x.t # "null"
             /\ x.v # 0

IsNumber(x) == x.t = "num"

\* dict.get(key): the value, or None
Get(d, k) == IF k \in DOMAIN d THEN d[k] ELSE Null

\* a or b
Or(a, b) == IF Truthy(a) THEN a ELSE b

SoilFields == <<"N", "P", "K", "ph", "rainfall">>

Columns == <<"N", "P", "K", "temperature", "humidity", "ph", "rainfall">>

SoilSet == {SoilFields[i] : i \in 1..Len(SoilFields)}

Keys == SoilSet \cup {"city", "api_key", "temperature", "humidity"}

\* ---------------------------------------------------------------- bounds

\* largest number of labels the classifier exposes
MaxLabels == 4

\* round(prob * 100, 2): the scale and the number of decimals
Percent == 100

Decimals == 2

\* [:3]
TopK == 3

RECURSIVE Pow10(_)
Pow10(n) == IF n = 0 THEN 1 ELSE 10 * Pow10(n - 1)

\* the reported value of probability 1, in reported steps: 100.00
Hundred == Percent * Pow10(Decimals)

\* probabilities are multiples of 1/Unit: thousandths of a percent
Unit == Pow10(5)

\* one reported step (0.01 percent) in probability units
Step == Unit \div Hundred

ProbValues == {0, 25000, 33328, 33331, 33333, 33336, 50000}

\* the values a request may give to a key; Absent: the key is not sent
Absent == [t |-> "absent", v |-> 0]

Choices == [city : {Absent, Str(1)},
            api_key : {Absent, Str(0), Str(2)},
            temperature : {Absent, Num(25)},
            humidity : {Absent, Num(80)},
            N : {Absent, Null, Num(90)},
            P : {Absent, Str(4), Num(42)},
            K : {Absent, Null, Num(43)},
            ph : {Absent, Str(5), Num(6)},
            rainfall : {Absent, Null, Num(200)}]

\* the JSON object a choice of values denotes
ObjectOf(c) == [k \in {x \in Keys : c[x] # Absent} |-> c[k]]

Objects == {ObjectOf(c) : c \in Choices}

EmptyObject == [k \in {} |-> Null]

\* request bodies: no body, a body that is not JSON, a falsy JSON value that
\* is not an object (null, 0, [], ""), a truthy one (a non-empty array), an object
Bodies == {[kind |-> k, data |-> EmptyObject] : k \in {"absent", "unparseable", "falsy", "array"}}
          \cup {[kind |-> "object", data |-> d] : d \in Objects}

\* os.environ.get("OPENWEATHER_API_KEY")
EnvValues == {Null, Str(3)}

\* what the weather provider call can do
ProviderOutcomes == {"ok", "non200", "non200_nomessage", "network", "timeout", "malformed"}

\* the classifier's distributions: one probability per label, in the order of
\* model.classes_, summing to 1
RECURSIVE Sum(_)
Sum(s) == IF s = <<>> THEN 0 ELSE s[1] + Sum(Tail(s))

Distributions == UNION {{d \in [1..n -> ProbValues] : Sum(d) = Unit} : n \in 1..MaxLabels}

\* ---------------------------------------------------------------- responses

NoWeather == [ok |-> FALSE, temp |-> Null, hum |-> Null]

NoError == [some |-> FALSE, text |-> "None"]

\* jsonify({"error": ...}), status
ErrorResponse(status, msg) ==
    [status |-> status, error |-> msg, city |-> Null, weather |-> <<>>,
     soil |-> <<>>, prediction |-> 0, top3 |-> <<>>]

NoResponse == ErrorResponse(0, <<>>)

\* except Exception as e: return jsonify({"error": str(e)}), 500
Caught(text) == ErrorResponse(500, <<text>>)

\* ---------------------------------------------------------------- get_weather

get_weather(outcome) ==
    CASE outcome = "ok" ->
           [weather |-> [ok |-> TRUE, temp |-> Num(30), hum |-> Num(60)], error |-> NoError]
      [] outcome = "non200" ->
           [weather |-> NoWeather, error |-> [some |-> TRUE, text |-> "Invalid API key"]]
      [] outcome = "non200_nomessage" ->
           [weather |-> NoWeather, error |-> [some |-> TRUE, text |-> "Unknown error"]]
      [] outcome = "network" ->
           [weather |-> NoWeather, error |-> [some |-> TRUE, text |-> "ConnectionError"]]
      [] outcome = "timeout" ->
           [weather |-> NoWeather, error |-> [some |-> TRUE, text |-> "ReadTimeout"]]
      [] outcome = "malformed" ->
           [weather |-> NoWeather, error |-> [some |-> TRUE, text |-> "'main'"]]

\* ---------------------------------------------------------------- predict_crop

data == body.data

\* bool(data) of the parsed body
DataTruthy(b) ==
    \/ b.kind = "array"
    \/ b.kind = "object" /\ DOMAIN b.data # {}

\* api_key = data.get("api_key") or os.environ.get("OPENWEATHER_API_KEY")
ApiKey(d, e) == Or(Get(d, "api_key"), e)

\* if "city" in data and api_key
UseProviderAnyKey(d, e) == "city" \in DOMAIN d

UseProvider(d, e) == "city" \in DOMAIN d /\ Truthy(ApiKey(d, e))

\* after get_weather returns, control falls to "if not weather"
AfterGetWeatherRetry(w) == IF w.ok THEN "fallback" ELSE "get_weather"

AfterGetWeather(w) == "fallback"

WeatherFailedMsgNoText(e) ==
    <<"Weather API failed. ", "Provide 'temperature' and 'humidity' manually.">>

WeatherFailedMsg(e) ==
    <<"Weather API failed: ", e.text, ". ", "Provide 'temperature' and 'humidity' manually.">>

\* a provider failure that is fatal even when manual values are given
ResolveWeatherFatal(d, w, e) ==
    IF ~w.ok
    THEN IF "temperature" \in DOMAIN d /\ "humidity" \in DOMAIN d /\ ~e.some
         THEN [ok |-> TRUE, temperature |-> d["temperature"], humidity |-> d["humidity"],
               response |-> NoResponse]
         ELSE [ok |-> FALSE, temperature |-> Null, humidity |-> Null,
               response |-> ErrorResponse(500, WeatherFailedMsg(e))]
    ELSE [ok |-> TRUE, temperature |-> w.temp, humidity |-> w.hum, response |-> NoResponse]

\* if not weather: manual values or the 500; else the provider's reading
ResolveWeather(d, w, e) ==
    IF ~w.ok
    THEN IF "temperature" \in DOMAIN d /\ "humidity" \in DOMAIN d
         THEN [ok |-> TRUE, temperature |-> d["temperature"], humidity |-> d["humidity"],
               response |-> NoResponse]
         ELSE [ok |-> FALSE, temperature |-> Null, humidity |-> Null,
               response |-> ErrorResponse(500, WeatherFailedMsg(e))]
    ELSE [ok |-> TRUE, temperature |-> w.temp, humidity |-> w.hum, response |-> NoResponse]

\* the soil keys whose lookup raises KeyError, by position in the row
Missing(d) == {i \in 1..Len(SoilFields) : SoilFields[i] \notin DOMAIN d}

\* the row is built left to right: the first missing key raises
FirstMissing(d) == SoilFields[CHOOSE i \in Missing(d) : \A j \in Missing(d) : i <= j]

\* f"Missing required field: {str(ke)}", str(KeyError('N')) being 'N' in quotes
MissingFieldMsg(f) == <<"Missing required field: ", "'", f, "'">>

\* the KeyError left to the outer handler
KeyErrorUncaught(d) == Caught("'" \o FirstMissing(d) \o "'")

\* except KeyError as ke: return jsonify({"error": ...}), 400
KeyErrorResponse(d) == ErrorResponse(400, MissingFieldMsg(FirstMissing(d)))

\* the single row of the DataFrame, in the order of its columns
RowSwapped(d, t, h) == <<d["N"], d["P"], d["K"], t, d["ph"], h, d["rainfall"]>>

Row(d, t, h) == <<d["N"], d["P"], d["K"], t, h, d["ph"], d["rainfall"]>>

\* pd.DataFrame([[...]], columns=[...])
DataFrame(d, t, h) == [columns |-> Columns, row |-> Row(d, t, h)]

NoFrame == [columns |-> <<>>, row |-> <<>>]

\* zip(model.classes_, probs): the labels are numbered in the order of classes_
Zip(p) == [i \in 1..Len(p) |-> <<i, p[i]>>]

\* where sorted(..., reverse=True) puts x in an already sorted prefix: after
\* every element whose key is not smaller (the sort is stable)
InsertAtUnstable(s, x) == Cardinality({i \in 1..Len(s) : s[i][2] > x[2]}) + 1

InsertAt(s, x) == Cardinality({i \in 1..Len(s) : s[i][2] >= x[2]}) + 1

Insert(s, x) ==
    SubSeq(s, 1, InsertAt(s, x) - 1) \o <<x>> \o SubSeq(s, InsertAt(s, x), Len(s))

RECURSIVE SortedDesc(_)
SortedDesc(z) ==
    IF z = <<>> THEN <<>>
    ELSE Insert(SortedDesc(SubSeq(z, 1, Len(z) - 1)), z[Len(z)])

Min(a, b) == IF a <= b THEN a ELSE b

\* sorted(zip(model.classes_, probs), key=lambda x: x[1], reverse=True)[:3]
Top3(p) == SubSeq(SortedDesc(Zip(p)), 1, Min(TopK, Len(p)))

Round2Up(p) == (p + Step - 1) \div Step

\* round(prob * 100, 2) in hundredths of a percent, halves to the even neighbour
Round2(p) ==
    LET q == p \div Step
        r == p % Step
    IN IF 2 * r > Step \/ (2 * r = Step /\ q % 2 = 1) THEN q + 1 ELSE q

Reported(t) == [i \in 1..Len(t) |-> [crop |-> t[i][1], probability |-> Round2(t[i][2])]]

Success(d, t, h, pred, p) ==
    [status |-> 200, error |-> <<>>, city |-> Get(d, "city"),
     weather |-> <<t, h>>,
     soil |-> <<d["N"], d["P"], d["K"], d["ph"], d["rainfall"]>>,
     prediction |-> pred, top3 |-> Reported(Top3(p))]

\* ---------------------------------------------------------------- actions

Init ==
    /\ pc = "start"
    /\ body \in Bodies
    /\ env \in EnvValues
    /\ weather = NoWeather
    /\ error = NoError
    /\ temperature = Null
    /\ humidity = Null
    /\ input_data = NoFrame
    /\ prediction = 0
    /\ probs = <<>>
    /\ response = NoResponse
    /\ providerCalls = 0
    /\ predictArgs = <<>>
    /\ probaArgs = <<>>

Finish(r) ==
    /\ pc' = "done"
    /\ response' = r

\* data = request.json; if not data: 400
ReadJson ==
    /\ pc = "start"
    /\ \/ /\ body.kind = "unparseable"
          /\ Finish(Caught("400 Bad Request"))
       \/ /\ body.kind = "absent"
          /\ \/ Finish(ErrorResponse(400, <<"No input data provided">>))
             \/ Finish(Caught("415 Unsupported Media Type"))
             \/ Finish(Caught("400 Bad Request"))
       \/ /\ body.kind \in {"falsy", "object"}
          /\ ~DataTruthy(body)
          /\ Finish(ErrorResponse(400, <<"No input data provided">>))
       \/ /\ DataTruthy(body)
          /\ pc' = "weather"
          /\ UNCHANGED response
    /\ UNCHANGED <<body, env, weather, error, temperature, humidity, input_data,
                   prediction, probs, providerCalls, predictArgs, probaArgs>>

\* weather, error = None, None; the credential; whether to call the provider
WeatherHandling ==
    /\ pc = "weather"
    /\ IF body.kind = "array"
       THEN Finish(Caught("'list' object has no attribute 'get'"))
       ELSE /\ pc' = IF UseProvider(data, env) THEN "get_weather" ELSE "fallback"
            /\ UNCHANGED response
    /\ UNCHANGED <<body, env, weather, error, temperature, humidity, input_data,
                   prediction, probs, providerCalls, predictArgs, probaArgs>>

\* weather, error = get_weather(data["city"], api_key)
GetWeather ==
    /\ pc = "get_weather"
    /\ providerCalls' = providerCalls + 1
    /\ \E o \in ProviderOutcomes :
         /\ weather' = get_weather(o).weather
         /\ error' = get_weather(o).error
         /\ pc' = AfterGetWeather(get_weather(o).weather)
    /\ UNCHANGED <<body, env, temperature, humidity, input_data, prediction, probs,
                   response, predictArgs, probaArgs>>

\* if not weather: ... else: temperature, humidity = weather
Fallback ==
    /\ pc = "fallback"
    /\ LET r == ResolveWeather(data, weather, error)
       IN IF r.ok
          THEN /\ temperature' = r.temperature
               /\ humidity' = r.humidity
               /\ pc' = "assemble"
               /\ UNCHANGED response
          ELSE /\ Finish(r.response)
               /\ UNCHANGED <<temperature, humidity>>
    /\ UNCHANGED <<body, env, weather, error, input_data, prediction, probs,
                   providerCalls, predictArgs, probaArgs>>

\* input_data = pd.DataFrame([[...]], columns=[...]); except KeyError: 400
Assemble ==
    /\ pc = "assemble"
    /\ IF Missing(data) # {}
       THEN /\ Finish(KeyErrorResponse(data))
            /\ UNCHANGED input_data
       ELSE /\ input_data' = DataFrame(data, temperature, humidity)
            /\ pc' = "predict"
            /\ UNCHANGED response
    /\ UNCHANGED <<body, env, weather, error, temperature, humidity, prediction, probs,
                   providerCalls, predictArgs, probaArgs>>

\* prediction = model.predict(input_data)[0]
Predict ==
    /\ pc = "predict"
    /\ predictArgs' = Append(predictArgs, input_data)
    /\ \/ /\ prediction' = 1
          /\ pc' = "predict_proba"
          /\ UNCHANGED response
       \/ /\ Finish(Caught("could not convert input to float"))
          /\ UNCHANGED prediction
    /\ UNCHANGED <<body, env, weather, error, temperature, humidity, input_data, probs,
                   providerCalls, probaArgs>>

\* probs = model.predict_proba(input_data)[0]
PredictProba ==
    /\ pc = "predict_proba"
    /\ probaArgs' = Append(probaArgs, input_data)
    /\ \/ \E p \in Distributions :
            /\ probs' = p
            /\ pc' = "respond"
            /\ UNCHANGED response
       \/ /\ Finish(Caught("could not convert input to float"))
          /\ UNCHANGED probs
    /\ UNCHANGED <<body, env, weather, error, temperature, humidity, input_data, prediction,
                   providerCalls, predictArgs>>

\* top3 = sorted(...)[:3]; return jsonify({...})
Respond ==
    /\ pc = "respond"
    /\ Finish(Success(data, temperature, humidity, prediction, probs))
    /\ UNCHANGED <<body, env, weather, error, temperature, humidity, input_data, prediction,
                   probs, providerCalls, predictArgs, probaArgs>>

Next ==
    \/ ReadJson
    \/ WeatherHandling
    \/ GetWeather
    \/ Fallback
    \/ Assemble
    \/ Predict
    \/ PredictProba
    \/ Respond

Spec == Init /\ [][Next]_vars

\* ---------------------------------------------------------------- properties

ManualSupplied == "temperature" \in DOMAIN data /\ "humidity" \in DOMAIN data

ClassifierInvoked == predictArgs # <<>> \/ probaArgs # <<>>

NamesField(msg, f) == msg = <<"Missing required field: ", "'", f, "'">>

\* the weather error message: the provider's text (or None) and the instruction
IsWeatherMsg(msg) ==
    /\ Len(msg) = 4
    /\ msg[1] = "Weather API failed: "
    /\ msg[2] = (IF providerCalls > 0 THEN error.text ELSE "None")
    /\ msg[4] = "Provide 'temperature' and 'humidity' manually."

\* C1, as stated: a non-empty JSON body that omits exactly one of N, P, K, ph,
\* rainfall is answered with 400 and a message naming that field, whatever the
\* city, credential, temperature and humidity fields are.
C1_MissingFieldWhateverWeather ==
    (pc = "done" /\ DataTruthy(body) /\ Cardinality(Missing(data)) = 1)
        => \A i \in Missing(data) :
              /\ response.status = 400
              /\ NamesField(response.error, SoilFields[i])

\* C1, amended: a request omitting exactly one of N, P, K, ph, rainfall whose
\* weather resolves (the provider call succeeded, or temperature and humidity
\* are both supplied) is answered with 400 and a message naming that field.
C1_MissingFieldAfterWeather ==
    (pc = "done" /\ DataTruthy(body) /\ Cardinality(Missing(data)) = 1
       /\ (weather.ok \/ ManualSupplied))
        => \A i \in Missing(data) :
              /\ response.status = 400
              /\ NamesField(response.error, SoilFields[i])

C1_Witness ==
    /\ pc = "done"
    /\ Missing(data) = {4}
    /\ weather.ok
    /\ response.status = 400
    /\ NamesField(response.error, "ph")

\* C2: a request whose body is absent, empty or not parseable as JSON is
\* answered with 400 and an error message, and neither the weather provider
\* nor the classifier is invoked for it.
C2_MalformedInputIs400 ==
    (pc = "done" /\ ~DataTruthy(body))
        => /\ response.status = 400
           /\ response.error # <<>>
           /\ providerCalls = 0
           /\ ~ClassifierInvoked

NoCity == "city" \notin DOMAIN data

NoCredential == ~Truthy(Get(data, "api_key")) /\ ~Truthy(env)

WeatherResolvedAt == {"assemble", "predict", "predict_proba", "respond", "done"}

\* C3: for a request that supplies both temperature and humidity and has no
\* city or no credential (neither api_key nor the process-wide one), the
\* weather provider is never called and, once the weather is resolved, the
\* temperature and humidity are the supplied ones.
C3_ManualWithoutProvider ==
    (body.kind = "object" /\ ManualSupplied /\ (NoCity \/ NoCredential))
        => /\ providerCalls = 0
           /\ pc # "get_weather"
           /\ pc \in WeatherResolvedAt =>
                 /\ temperature = data["temperature"]
                 /\ humidity = data["humidity"]
                 /\ ~IsWeatherMsg(response.error)

C3_Witness ==
    /\ pc = "done"
    /\ ManualSupplied
    /\ ~NoCity
    /\ NoCredential
    /\ response.status = 200
    /\ response.weather = <<Num(25), Num(80)>>

\* C4: no failure of the provider call ends the request by itself, and when
\* the call failed and temperature and humidity are both supplied, weather
\* resolution yields the supplied values and the request goes on to feature
\* assembly.
C4_ProviderFailureFallsBack ==
    [][/\ pc = "get_weather" => pc' # "done"
       /\ (pc = "fallback" /\ providerCalls > 0 /\ ~weather.ok /\ ManualSupplied)
             => /\ pc' = "assemble"
                /\ temperature' = data["temperature"]
                /\ humidity' = data["humidity"]]_vars

C4_Witness ==
    /\ pc = "assemble"
    /\ providerCalls = 1
    /\ ~weather.ok
    /\ error.text = "ReadTimeout"
    /\ temperature = Num(25)
    /\ humidity = Num(80)

\* C5, as stated: every request with a non-empty body for which the provider
\* path yields no reading and temperature and humidity are not both supplied
\* is answered with 500, a message carrying the provider's error text (when
\* the provider was called) and the instruction to supply the two values, and
\* the classifier is not invoked.
C5_WeatherUnavailableAnyBody ==
    (pc = "done" /\ DataTruthy(body) /\ ~weather.ok /\ ~ManualSupplied)
        => /\ response.status = 500
           /\ IsWeatherMsg(response.error)
           /\ ~ClassifierInvoked

\* C5, amended: the same for every request whose body is a non-empty JSON
\* object.
C5_WeatherUnavailableObject ==
    (pc = "done" /\ body.kind = "object" /\ DataTruthy(body) /\ ~weather.ok /\ ~ManualSupplied)
        => /\ response.status = 500
           /\ IsWeatherMsg(response.error)
           /\ ~ClassifierInvoked

C5_Witness ==
    /\ pc = "done"
    /\ body.kind = "object"
    /\ providerCalls = 1
    /\ ~weather.ok
    /\ ~ManualSupplied
    /\ response.status = 500
    /\ response.error[2] = "Invalid API key"

\* C6: within one request the weather provider is called at most once, and
\* after a call, failed or not, control goes to the branch that tests the
\* reading and falls back to the manual values: the call is never repeated.
C6_AtMostOneProviderCall ==
    /\ [](providerCalls <= 1)
    /\ [][pc = "get_weather" => pc' = "fallback"]_vars

C6_Witness ==
    /\ pc = "done"
    /\ providerCalls = 1
    /\ ~weather.ok

\* the vector the classifier must be given for the request
ExpectedValue(c) ==
    CASE c = "temperature" -> IF weather.ok THEN weather.temp ELSE data["temperature"]
      [] c = "humidity" -> IF weather.ok THEN weather.hum ELSE data["humidity"]
      [] OTHER -> data[c]

IsExpectedVector(x) ==
    /\ x.columns = <<"N", "P", "K", "temperature", "humidity", "ph", "rainfall">>
    /\ Len(x.row) = 7
    /\ \A i \in 1..7 : x.row[i] = ExpectedValue(x.columns[i])

\* C7: every vector given to the classifier has the 7 columns N, P, K,
\* temperature, humidity, ph, rainfall in this order, the soil values being
\* the request's and temperature and humidity the provider's reading when the
\* call succeeded, otherwise the manual values; predict and predict_proba are
\* given the same vector.
C7_FeatureVector ==
    /\ \A i \in 1..Len(predictArgs) : IsExpectedVector(predictArgs[i])
    /\ \A i \in 1..Len(probaArgs) :
          /\ IsExpectedVector(probaArgs[i])
          /\ i <= Len(predictArgs)
          /\ probaArgs[i] = predictArgs[i]

C7_Witness ==
    /\ probaArgs # <<>>
    /\ weather.ok
    /\ ManualSupplied
    /\ probaArgs[1].row[4] = Num(30)
    /\ probaArgs[1].row[5] = Num(60)

\* label a ranks before label b: larger probability, or the same probability
\* and earlier in the classifier's label order
Before(a, b) == probs[a] > probs[b] \/ (probs[a] = probs[b] /\ a < b)

\* v is p scaled to a percentage and rounded to 2 decimals
IsRounded(v, p) == 2 * (v * Step - p) <= Step /\ 2 * (p - v * Step) <= Step

\* C8: the top3 of a successful response has min(3, n) entries, ordered by
\* full-precision probability, descending, entries of equal probability in
\* the classifier's label order; every label left out ranks after all of
\* them; each reported value is the rounded percentage of its label.
C8_Top3Order ==
    (pc = "done" /\ response.status = 200)
        => LET t == response.top3
           IN /\ Len(t) = Min(3, Len(probs))
              /\ \A i \in 1..Len(t) :
                    /\ t[i].crop \in 1..Len(probs)
                    /\ IsRounded(t[i].probability, probs[t[i].crop])
                    /\ \A j \in 1..Len(t) : i < j => Before(t[i].crop, t[j].crop)
                    /\ \A l \in 1..Len(probs) :
                          (\A j \in 1..Len(t) : t[j].crop # l) => Before(t[i].crop, l)

C8_Witness ==
    /\ pc = "done"
    /\ response.status = 200
    /\ probs = <<0, 33331, 33333, 33336>>
    /\ response.top3[2].probability = response.top3[3].probability

RECURSIVE SumReported(_)
SumReported(t) == IF t = <<>> THEN 0 ELSE t[1].probability + SumReported(Tail(t))

\* C9, as stated: the reported top3 probabilities of a successful response
\* sum to at most 100.
C9_Top3SumAtMost100 ==
    (pc = "done" /\ response.status = 200) => SumReported(response.top3) <= Hundred

\* C9, amended: the reported top3 probabilities of a successful response sum
\* to at most 100.01: each is rounded separately, and three roundings
\* upwards can add one reported step to a sum of 100.
C9_Top3SumAtMost100_01 ==
    (pc = "done" /\ response.status = 200) => SumReported(response.top3) <= Hundred + 1

C9_Witness ==
    /\ pc = "done"
    /\ response.status = 200
    /\ SumReported(response.top3) = Hundred + 1

\* C10: the classifier is invoked only for requests in which N, P, K, ph and
\* rainfall are all present and numbers.
C10_NumericBeforeClassifier ==
    ClassifierInvoked
        => \A f \in SoilSet : f \in DOMAIN data /\ IsNumber(data[f])
====
